---- MODULE Spec2Model ----
(***************************************************************************)
(* comLedger: the highlight engine (app/utils/highlightUtils.tsx), the      *)
(* settings hook (app/hooks/useSettings.ts), the page (app/page.tsx) and    *)
(* the exports (app/utils/exportUtils.ts).                                  *)
(*                                                                          *)
(* A JavaScript string is a sequence of one-character strings.  The HTML    *)
(* string built by applyHighlightsToHTML is a sequence of lexemes: the      *)
(* characters of the text, one by one, and the pieces of markup the         *)
(* function writes (opening tag, partial indicator, closing tag), each a    *)
(* string built with \o from the rule's colours.                            *)
(***************************************************************************)
EXTENDS Integers, Sequences, FiniteSets, TLC

VARIABLES
    text,           \* applyHighlights / applyHighlightsToHTML: the text argument
    rules,          \* the rules argument (HighlightRule[])
    partialMatch,   \* the partialMatch argument
    parts,          \* what applyHighlights returned (React nodes)
    html,           \* what applyHighlightsToHTML returned (lexemes)
    called,         \* which of the two renderers have run
    localStorage,   \* window.localStorage of the origin, shared by its tabs
    mounted,        \* the tabs in which the page is mounted
    settings,       \* per tab: the state of useSettings
    beforeReload,   \* per tab: the settings a reload replaced and the number of
                    \* transcripts it dropped, until the next update
    now,            \* Date.now()
    updates,        \* the number of settings updates made so far
    transcriptsWithTimestamps,  \* per tab: the confirmed transcripts of the page
    lastPartialTranscriptRef,   \* per tab: lastPartialTranscriptRef.current
    isConnected,    \* per tab: scribe.isConnected
    attempts,       \* per tab: the calls of handleStart that have not returned, each
                    \* with the language of the render that made it
    notification,   \* per tab: the notification state of the page
    timers,         \* per tab: seconds left of the pending setTimeout callbacks
    printWindow,    \* per tab: the windows that exportAsPDF opened, until they close
    secureContext,  \* the origin is served over https or from localhost
    showNotices,    \* per tab: the first-time notices on show (0, 1, 2)
    shownFor,       \* per tab: seconds since the notification was set
    heard,          \* per tab: the partial transcript not yet committed or saved
    did,            \* per tab: the last handler that ran and what it called
    transcripts,    \* exportAsCSV: the transcripts argument
    csvContent      \* exportAsCSV: the content of the blob it built

hlVars == <<text, rules, partialMatch, parts, html, called>>
stVars == <<localStorage, mounted, settings, beforeReload, now, updates>>
evVars == <<transcriptsWithTimestamps, lastPartialTranscriptRef, isConnected, attempts,
            printWindow, secureContext, showNotices, heard>>
ntVars == <<notification, timers, shownFor>>
pgVars == <<evVars, ntVars, did>>
csvVars == <<transcripts, csvContent>>
vars == <<hlVars, stVars, pgVars, csvVars>>

(***************************************************************************)
(* Bounds and input sets                                                    *)
(***************************************************************************)
MaxTextLen == 3
MaxRules == 2
MaxUpdates == 3
MaxClock == 2
MaxTabUpdates == 1
MaxTimers == 4
MaxTranscripts == 2
MaxStarts == 2
MaxWindows == 2
MaxCsvTextLen == 2

Letters == {"a", "A", "b"}
Spaces == {" "}
Chars == Letters \cup Spaces

\* the rules the inputs are drawn from: an empty word, a word in lower case
\* under two colours (one of the palette, one not), a longer word in mixed case
HighlightRule == {
    [id |-> "1", word |-> <<>>,         color |-> "#4CAF50"],
    [id |-> "2", word |-> <<"a">>,      color |-> "#4CAF50"],
    [id |-> "3", word |-> <<"a">>,      color |-> "#123456"],
    [id |-> "4", word |-> <<"A", "b">>, color |-> "#123456"] }
RuleColors == {r.color : r \in HighlightRule}

RECURSIVE SeqsUpTo(_, _)
SeqsUpTo(S, n) ==
    IF n = 0 THEN {<<>>}
    ELSE LET shorter == SeqsUpTo(S, n - 1)
         IN  shorter \cup {Append(s, x) : s \in shorter, x \in S}

Texts == SeqsUpTo(Chars, MaxTextLen)
RuleLists == SeqsUpTo(HighlightRule, MaxRules)

(***************************************************************************)
(* JavaScript string primitives                                             *)
(***************************************************************************)
\* String.prototype.toLowerCase on one character
LowerChar(c) == IF c = "A" THEN "a" ELSE IF c = "B" THEN "b" ELSE c

\* mutant of toLowerCase: the case folding is missing
toLowerCaseMissing(s) == s

\* String.prototype.toLowerCase
toLowerCase(s) == [i \in 1..Len(s) |-> LowerChar(s[i])]

\* String.prototype.includes
includes(s, sub) ==
    \E i \in 0..(Len(s) - Len(sub)) : SubSeq(s, i + 1, i + Len(sub)) = sub

\* the regular expression class \s; \S is its complement
IsSpace(c) == c \in {" ", "\t", "\n"}

\* /^\s+$/.test(token)
IsWhitespaceToken(token) == Len(token) > 0 /\ \A i \in 1..Len(token) : IsSpace(token[i])

\* length of the match of (\S+|\s+) at the start of a non-empty s
RunLength(s) ==
    CHOOSE n \in 1..Len(s) :
        /\ \A i \in 1..n : IsSpace(s[i]) = IsSpace(s[1])
        /\ (n = Len(s) \/ IsSpace(s[n + 1]) # IsSpace(s[1]))

\* mutant of wordPatternMatch: the pattern is /(\S+)/g, whitespace is dropped
RECURSIVE wordPatternWordsOnly(_)
wordPatternWordsOnly(s) ==
    IF s = <<>> THEN <<>>
    ELSE LET n == RunLength(s)
         IN  (IF IsSpace(s[1]) THEN <<>> ELSE <<SubSeq(s, 1, n)>>)
             \o wordPatternWordsOnly(SubSeq(s, n + 1, Len(s)))

\* text.match(/(\S+|\s+)/g) || []
RECURSIVE wordPatternMatch(_)
wordPatternMatch(s) ==
    IF s = <<>> THEN <<>>
    ELSE LET n == RunLength(s)
         IN  <<SubSeq(s, 1, n)>> \o wordPatternMatch(SubSeq(s, n + 1, Len(s)))

(***************************************************************************)
(* HIGHLIGHT_COLORS and the text colour of a rule                           *)
(***************************************************************************)
HIGHLIGHT_COLORS == <<
    [name |-> "Yellow", value |-> "#FFEB3B", textColor |-> "#000000"],
    [name |-> "Green",  value |-> "#4CAF50", textColor |-> "#FFFFFF"],
    [name |-> "Blue",   value |-> "#2196F3", textColor |-> "#FFFFFF"],
    [name |-> "Red",    value |-> "#F44336", textColor |-> "#FFFFFF"],
    [name |-> "Purple", value |-> "#9C27B0", textColor |-> "#FFFFFF"],
    [name |-> "Orange", value |-> "#FF9800", textColor |-> "#FFFFFF"],
    [name |-> "Pink",   value |-> "#E91E63", textColor |-> "#FFFFFF"],
    [name |-> "Cyan",   value |-> "#00BCD4", textColor |-> "#FFFFFF"],
    [name |-> "Lime",   value |-> "#CDDC39", textColor |-> "#000000"],
    [name |-> "Teal",   value |-> "#009688", textColor |-> "#FFFFFF"] >>

\* HIGHLIGHT_COLORS.find(c => c.value === rule.color)?.textColor || '#000000'
TextColorOf(color) ==
    LET hits == {i \in 1..Len(HIGHLIGHT_COLORS) : HIGHLIGHT_COLORS[i].value = color}
    IN  IF hits = {} THEN "#000000"
        ELSE HIGHLIGHT_COLORS[CHOOSE i \in hits : \A j \in hits : i <= j].textColor

(***************************************************************************)
(* applyHighlights: React nodes                                             *)
(***************************************************************************)
\* a string child of the returned array
TextNode(s) ==
    [type |-> "text", children |-> s, backgroundColor |-> "", color |-> "",
     indicator |-> FALSE]

\* mutant of SpanNode: the partial indicator is never rendered
SpanNodeNoIndicator(token, rule, isPartialMatch) ==
    [type |-> "span", children |-> token, backgroundColor |-> rule.color,
     color |-> TextColorOf(rule.color), indicator |-> FALSE]

\* <span style={{backgroundColor, color, ...}}>{token}{isPartialMatch && <span>˚</span>}</span>
SpanNode(token, rule, isPartialMatch) ==
    [type |-> "span", children |-> token, backgroundColor |-> rule.color,
     color |-> TextColorOf(rule.color), indicator |-> isPartialMatch]

\* mutant of isMatch: the partialMatch toggle is not consulted
isMatchIgnoringToggle(token, rule, pm) ==
    LET ruleWord == toLowerCase(rule.word)
        tokenLower == toLowerCase(token)
    IN  tokenLower = ruleWord \/ includes(tokenLower, ruleWord)

\* "let isMatch" of applyHighlights after the if / else if on one rule
isMatch(token, rule, pm) ==
    LET ruleWord == toLowerCase(rule.word)
        tokenLower == toLowerCase(token)
    IN  IF tokenLower = ruleWord THEN TRUE
        ELSE IF pm /\ includes(tokenLower, ruleWord) THEN TRUE
        ELSE FALSE

\* "let isPartialMatch" of applyHighlights after the if / else if on one rule
isPartialMatch(token, rule, pm) ==
    LET ruleWord == toLowerCase(rule.word)
        tokenLower == toLowerCase(token)
    IN  IF tokenLower = ruleWord THEN FALSE
        ELSE IF pm /\ includes(tokenLower, ruleWord) THEN TRUE
        ELSE FALSE

\* mutant of PartsOfToken: the loop has no break and the last matching rule
\* decides the span
PartsOfTokenLastWins(token, rs, pm, i) ==
    LET hits == {k \in i..Len(rs) : isMatch(token, rs[k], pm)}
    IN  IF hits = {} THEN <<TextNode(token)>>
        ELSE LET k == CHOOSE k \in hits : \A m \in hits : m <= k
             IN  <<SpanNode(token, rs[k], isPartialMatch(token, rs[k], pm))>>

\* the loop "for (const rule of rules)" of applyHighlights from rule i on,
\* with its break, and "if (!matched) parts.push(token)": the nodes pushed
\* for one non-whitespace token
RECURSIVE PartsOfToken(_, _, _, _)
PartsOfToken(token, rs, pm, i) ==
    IF i > Len(rs) THEN <<TextNode(token)>>
    ELSE IF isMatch(token, rs[i], pm)
        THEN <<SpanNode(token, rs[i], isPartialMatch(token, rs[i], pm))>>
    ELSE PartsOfToken(token, rs, pm, i + 1)

\* tokens.forEach(...) of applyHighlights
RECURSIVE PartsOfTokens(_, _, _)
PartsOfTokens(tokens, rs, pm) ==
    IF tokens = <<>> THEN <<>>
    ELSE (IF IsWhitespaceToken(Head(tokens))
              THEN <<TextNode(Head(tokens))>>
              ELSE PartsOfToken(Head(tokens), rs, pm, 1))
         \o PartsOfTokens(Tail(tokens), rs, pm)

\* mutant of applyHighlights: the early return for an empty rule list is gone
applyHighlightsNoEarlyReturn(t, rs, pm) ==
    LET ps == PartsOfTokens(wordPatternMatch(t), rs, pm)
    IN  IF Len(ps) > 0 THEN ps ELSE <<TextNode(t)>>

applyHighlights(t, rs, pm) ==
    IF Len(rs) = 0 THEN <<TextNode(t)>>
    ELSE LET ps == PartsOfTokens(wordPatternMatch(t), rs, pm)
         IN  IF Len(ps) > 0 THEN ps ELSE <<TextNode(t)>>

(***************************************************************************)
(* applyHighlightsToHTML: an HTML string                                    *)
(***************************************************************************)
OpenTag(bg, fg) ==
    "<span style=\"background-color: " \o bg \o "; color: " \o fg
    \o "; padding: 2px 4px; border-radius: 3px; font-weight: 600; position: relative; display: inline-block;\">"
PartialIndicator ==
    "<span style=\"position: absolute; top: -7px; right: -5px; font-size: 2em; line-height: 1; opacity: 0.7;\">˚</span>"
CloseTag == "</span>"

\* mutant of isMatchHTML: only the exact comparison is made
isMatchHTMLExactOnly(token, rule, pm) ==
    toLowerCase(token) = toLowerCase(rule.word)

\* mutant of isMatchHTML: the partialMatch toggle is not consulted
isMatchHTMLIgnoringToggle(token, rule, pm) ==
    LET ruleWord == toLowerCase(rule.word)
        tokenLower == toLowerCase(token)
    IN  tokenLower = ruleWord \/ includes(tokenLower, ruleWord)

\* "let isMatch" of applyHighlightsToHTML after the if / else if on one rule
isMatchHTML(token, rule, pm) ==
    LET ruleWord == toLowerCase(rule.word)
        tokenLower == toLowerCase(token)
    IN  IF tokenLower = ruleWord THEN TRUE
        ELSE IF pm /\ includes(tokenLower, ruleWord) THEN TRUE
        ELSE FALSE

\* "let isPartialMatch" of applyHighlightsToHTML after the if / else if
isPartialMatchHTML(token, rule, pm) ==
    LET ruleWord == toLowerCase(rule.word)
        tokenLower == toLowerCase(token)
    IN  IF tokenLower = ruleWord THEN FALSE
        ELSE IF pm /\ includes(tokenLower, ruleWord) THEN TRUE
        ELSE FALSE

\* the template string returned for a matching rule
SpanHTML(token, rule, partial) ==
    <<OpenTag(rule.color, TextColorOf(rule.color))>> \o token
    \o (IF partial THEN <<PartialIndicator>> ELSE <<>>) \o <<CloseTag>>

\* the loop "for (const rule of rules)" of applyHighlightsToHTML from rule i
\* on, returning at the first match, and the final "return token": the
\* string returned for one non-whitespace token
RECURSIVE HTMLOfToken(_, _, _, _)
HTMLOfToken(token, rs, pm, i) ==
    IF i > Len(rs) THEN token
    ELSE IF isMatchHTML(token, rs[i], pm)
        THEN SpanHTML(token, rs[i], isPartialMatchHTML(token, rs[i], pm))
    ELSE HTMLOfToken(token, rs, pm, i + 1)

\* tokens.map(...).join('')
RECURSIVE HTMLOfTokens(_, _, _)
HTMLOfTokens(tokens, rs, pm) ==
    IF tokens = <<>> THEN <<>>
    ELSE (IF IsWhitespaceToken(Head(tokens))
              THEN Head(tokens)
              ELSE HTMLOfToken(Head(tokens), rs, pm, 1))
         \o HTMLOfTokens(Tail(tokens), rs, pm)

applyHighlightsToHTML(t, rs, pm) ==
    IF Len(rs) = 0 THEN t
    ELSE HTMLOfTokens(wordPatternMatch(t), rs, pm)

(***************************************************************************)
(* The rendering state machine: a text and a rule list are given, the       *)
(* transcript view renders them (applyHighlights) and the PDF export        *)
(* renders them (applyHighlightsToHTML), in either order.                   *)
(***************************************************************************)
InitHighlight ==
    /\ text \in Texts
    /\ rules \in RuleLists
    /\ partialMatch \in BOOLEAN
    /\ parts = <<>>
    /\ html = <<>>
    /\ called = {}
    /\ localStorage = [k \in {} |-> ""]
    /\ mounted = {}
    /\ settings = [t \in {} |-> 0]
    /\ beforeReload = [t \in {} |-> 0]
    /\ now = 0
    /\ updates = 0
    /\ transcriptsWithTimestamps = <<>>
    /\ lastPartialTranscriptRef = <<>>
    /\ isConnected = <<>>
    /\ attempts = <<>>
    /\ notification = <<>>
    /\ timers = <<>>
    /\ printWindow = <<>>
    /\ secureContext = TRUE
    /\ showNotices = <<>>
    /\ shownFor = <<>>
    /\ heard = <<>>
    /\ did = <<>>
    /\ transcripts = <<>>
    /\ csvContent = <<>>

RenderReact ==
    /\ "react" \notin called
    /\ parts' = applyHighlights(text, rules, partialMatch)
    /\ called' = called \cup {"react"}
    /\ UNCHANGED <<text, rules, partialMatch, html, stVars, pgVars, csvVars>>

RenderHTML ==
    /\ "html" \notin called
    /\ html' = applyHighlightsToHTML(text, rules, partialMatch)
    /\ called' = called \cup {"html"}
    /\ UNCHANGED <<text, rules, partialMatch, parts, stVars, pgVars, csvVars>>

NextHighlight == RenderReact \/ RenderHTML

SpecHighlight == InitHighlight /\ [][NextHighlight]_vars

(***************************************************************************)
(* useSettings: the settings of a tab and their copy in localStorage        *)
(*                                                                          *)
(* localStorage is a function from the keys that are set to their values;   *)
(* getItem gives null for a key outside its domain.  Every value is a       *)
(* string of the model: a plain string, or for the API key and the          *)
(* highlight rules a sequence (of characters, of JSON lexemes).             *)
(***************************************************************************)
Tabs == {"A", "B"}
Languages == {"en", "fi"}
\* what the user can type into the API key dialog
TempApiKeys == {<<"k", " ">>, <<" ">>}
\* the options of the microphone select: the default entry and a device
DeviceIds == {"", "mic-1"}
\* what the user can type into the word field of HighlightSettings
NewWords == {<<" ", "a">>, <<"\"">>, <<" ">>}
\* the colour the picker has selected: the first of HIGHLIGHT_COLORS
SelectedColors == {"#FFEB3B"}

\* the useState initial values of useSettings
Defaults ==
    [language |-> "en", apiKey |-> <<>>, echoCancellation |-> TRUE,
     noiseSuppression |-> TRUE, selectedMicrophoneId |-> "",
     highlightRules |-> <<>>, partialMatchHighlight |-> TRUE, newestFirst |-> TRUE]

\* the two ends of String.prototype.trim
RECURSIVE trimStart(_)
trimStart(s) == IF s # <<>> /\ IsSpace(Head(s)) THEN trimStart(Tail(s)) ELSE s
RECURSIVE trimEnd(_)
trimEnd(s) ==
    IF s # <<>> /\ IsSpace(s[Len(s)]) THEN trimEnd(SubSeq(s, 1, Len(s) - 1)) ELSE s

\* mutant of trim: the string is taken as typed
trimNone(s) == s

\* String.prototype.trim
trim(s) == trimEnd(trimStart(s))

\* String(value) of a boolean
String(b) == IF b THEN "true" ELSE "false"

\* localStorage.setItem, localStorage.removeItem
setItem(ls, key, value) ==
    [k \in DOMAIN ls \cup {key} |-> IF k = key THEN value ELSE ls[k]]
removeItem(ls, key) == [k \in DOMAIN ls \ {key} |-> ls[k]]

(***************************************************************************)
(* JSON.stringify and JSON.parse of a HighlightRule[]: the JSON text is a   *)
(* sequence of lexemes, the characters of a word one by one                 *)
(***************************************************************************)
\* mutant of JSONEscape: quotes and backslashes are written as they are
JSONEscapeMissing(chars) == chars

\* the characters of a string as JSON.stringify writes them between quotes
RECURSIVE JSONEscape(_)
JSONEscape(chars) ==
    IF chars = <<>> THEN <<>>
    ELSE (IF Head(chars) \in {"\"", "\\"} THEN <<"\\", Head(chars)>> ELSE <<Head(chars)>>)
         \o JSONEscape(Tail(chars))

\* one rule as JSON.stringify writes it
JSONOfRule(rule) ==
    <<"{", "\"id\":", "\"", rule.id, "\"", ",", "\"word\":", "\"">>
    \o JSONEscape(rule.word)
    \o <<"\"", ",", "\"color\":", "\"", rule.color, "\"", "}">>

RECURSIVE JSONOfRules(_)
JSONOfRules(rs) ==
    IF rs = <<>> THEN <<>>
    ELSE JSONOfRule(Head(rs))
         \o (IF Len(rs) > 1 THEN <<",">> ELSE <<>>) \o JSONOfRules(Tail(rs))

\* JSON.stringify(updated)
JSONStringify(rs) == <<"[">> \o JSONOfRules(rs) \o <<"]">>

\* a parse that failed
SyntaxError == [ok |-> FALSE, val |-> <<>>, next |-> 0]

\* JSON.parse reading the characters of a string from lexeme i on, up to
\* the closing quote
RECURSIVE ParseChars(_, _)
ParseChars(s, i) ==
    IF i > Len(s) THEN SyntaxError
    ELSE IF s[i] = "\"" THEN [ok |-> TRUE, val |-> <<>>, next |-> i + 1]
    ELSE IF s[i] = "\\" THEN
        IF i + 1 <= Len(s) /\ s[i + 1] \in {"\"", "\\"}
            THEN LET r == ParseChars(s, i + 2)
                 IN  IF r.ok THEN [r EXCEPT !.val = <<s[i + 1]>> \o r.val] ELSE r
            ELSE SyntaxError
    ELSE LET r == ParseChars(s, i + 1)
         IN  IF r.ok THEN [r EXCEPT !.val = <<s[i]>> \o r.val] ELSE r

\* s holds the lexemes lex from position i on
HasAt(s, i, lex) == i + Len(lex) - 1 <= Len(s) /\ SubSeq(s, i, i + Len(lex) - 1) = lex

\* JSON.parse reading one rule object from lexeme i on
ParseRule(s, i) ==
    IF ~(HasAt(s, i, <<"{", "\"id\":", "\"">>) /\ HasAt(s, i + 4, <<"\"", ",", "\"word\":", "\"">>))
        THEN SyntaxError
    ELSE LET w == ParseChars(s, i + 8)
         IN  IF ~w.ok THEN SyntaxError
             ELSE IF ~(HasAt(s, w.next, <<",", "\"color\":", "\"">>)
                       /\ HasAt(s, w.next + 4, <<"\"", "}">>))
                 THEN SyntaxError
             ELSE [ok |-> TRUE,
                   val |-> [id |-> s[i + 3], word |-> w.val, color |-> s[w.next + 3]],
                   next |-> w.next + 6]

\* JSON.parse reading the rule objects of an array from lexeme i on, up to
\* the closing bracket, which ends the text
RECURSIVE ParseRules(_, _)
ParseRules(s, i) ==
    LET r == ParseRule(s, i)
    IN  IF ~r.ok THEN SyntaxError
        ELSE IF HasAt(s, r.next, <<"]">>) /\ r.next = Len(s)
            THEN [ok |-> TRUE, val |-> <<r.val>>, next |-> r.next + 1]
        ELSE IF HasAt(s, r.next, <<",">>)
            THEN LET rest == ParseRules(s, r.next + 1)
                 IN  IF rest.ok THEN [rest EXCEPT !.val = <<r.val>> \o rest.val] ELSE rest
        ELSE SyntaxError

\* JSON.parse(savedHighlightRules): ok is false when it throws
JSONParse(s) ==
    IF s = <<"[", "]">> THEN [ok |-> TRUE, val |-> <<>>, next |-> 3]
    ELSE IF HasAt(s, 1, <<"[">>) THEN ParseRules(s, 2)
    ELSE SyntaxError

(***************************************************************************)
(* The mount effect: the settings a fresh mount reads from localStorage     *)
(***************************************************************************)
LoadSettings(ls) ==
    [language |->
        IF "language" \in DOMAIN ls /\ ls["language"] \in {"en", "fi"}
            THEN ls["language"] ELSE Defaults.language,
     apiKey |->
        IF "elevenlabs_api_key" \in DOMAIN ls /\ ls["elevenlabs_api_key"] # <<>>
            THEN ls["elevenlabs_api_key"] ELSE Defaults.apiKey,
     echoCancellation |->
        IF "echo_cancellation" \in DOMAIN ls
            THEN ls["echo_cancellation"] = "true" ELSE Defaults.echoCancellation,
     noiseSuppression |->
        IF "noise_suppression" \in DOMAIN ls
            THEN ls["noise_suppression"] = "true" ELSE Defaults.noiseSuppression,
     selectedMicrophoneId |->
        IF "selected_microphone_id" \in DOMAIN ls /\ ls["selected_microphone_id"] # ""
            THEN ls["selected_microphone_id"] ELSE Defaults.selectedMicrophoneId,
     highlightRules |->
        IF "highlight_rules" \in DOMAIN ls /\ ls["highlight_rules"] # <<>>
            THEN LET parsed == JSONParse(ls["highlight_rules"])
                 IN  IF parsed.ok THEN parsed.val ELSE Defaults.highlightRules
            ELSE Defaults.highlightRules,
     partialMatchHighlight |->
        IF "partial_match_highlight" \in DOMAIN ls
            THEN ls["partial_match_highlight"] = "true"
            ELSE Defaults.partialMatchHighlight,
     newestFirst |->
        IF "newest_first" \in DOMAIN ls
            THEN ls["newest_first"] = "true" ELSE Defaults.newestFirst]

(***************************************************************************)
(* The updaters of useSettings, in tab t                                    *)
(***************************************************************************)
updateLanguage(t, lang) ==
    /\ settings' = [settings EXCEPT ![t].language = lang]
    /\ localStorage' = setItem(localStorage, "language", lang)

updateApiKey(t, key) ==
    /\ settings' = [settings EXCEPT ![t].apiKey = key]
    /\ localStorage' =
           IF key # <<>> THEN setItem(localStorage, "elevenlabs_api_key", key)
           ELSE removeItem(localStorage, "elevenlabs_api_key")

updateEchoCancellation(t, value) ==
    /\ settings' = [settings EXCEPT ![t].echoCancellation = value]
    /\ localStorage' = setItem(localStorage, "echo_cancellation", String(value))

updateNoiseSuppression(t, value) ==
    /\ settings' = [settings EXCEPT ![t].noiseSuppression = value]
    /\ localStorage' = setItem(localStorage, "noise_suppression", String(value))

updateMicrophone(t, deviceId) ==
    /\ settings' = [settings EXCEPT ![t].selectedMicrophoneId = deviceId]
    /\ localStorage' = setItem(localStorage, "selected_microphone_id", deviceId)

addHighlightRule(t, word, color) ==
    LET newRule == [id |-> ToString(now), word |-> trim(word), color |-> color]
        updated == Append(settings[t].highlightRules, newRule)
    IN  /\ settings' = [settings EXCEPT ![t].highlightRules = updated]
        /\ localStorage' = setItem(localStorage, "highlight_rules", JSONStringify(updated))

removeHighlightRule(t, id) ==
    LET updated == SelectSeq(settings[t].highlightRules, LAMBDA rule : rule.id # id)
    IN  /\ settings' = [settings EXCEPT ![t].highlightRules = updated]
        /\ localStorage' = setItem(localStorage, "highlight_rules", JSONStringify(updated))

updatePartialMatchHighlight(t, value) ==
    /\ settings' = [settings EXCEPT ![t].partialMatchHighlight = value]
    /\ localStorage' = setItem(localStorage, "partial_match_highlight", String(value))

updateNewestFirst(t, value) ==
    /\ settings' = [settings EXCEPT ![t].newestFirst = value]
    /\ localStorage' = setItem(localStorage, "newest_first", String(value))

(***************************************************************************)
(* The page in its tabs: mounting, reloading, and the handlers of page.tsx  *)
(* and HighlightSettings.tsx that change a setting                          *)
(***************************************************************************)
NoStorage == [k \in {} |-> ""]

\* localStorage as an earlier session left it, every setting off its default
EarlierSession ==
    [k \in {"language", "elevenlabs_api_key", "echo_cancellation", "noise_suppression",
            "selected_microphone_id", "highlight_rules", "partial_match_highlight",
            "newest_first"} |->
        CASE k = "language" -> "fi"
          [] k = "elevenlabs_api_key" -> <<"k">>
          [] k = "selected_microphone_id" -> "mic-1"
          [] k = "highlight_rules" ->
                 JSONStringify(<<[id |-> "0", word |-> <<"a">>, color |-> "#4CAF50"]>>)
          [] OTHER -> "false"]

\* localStorage holding values the page never writes
ForeignValues ==
    [k \in {"language", "elevenlabs_api_key", "echo_cancellation",
            "selected_microphone_id", "highlight_rules", "newest_first"} |->
        CASE k = "language" -> "de"
          [] k = "elevenlabs_api_key" -> <<>>
          [] k = "echo_cancellation" -> "yes"
          [] k = "selected_microphone_id" -> ""
          [] k = "highlight_rules" -> <<"[", "{">>
          [] OTHER -> ""]

InitialStorages == {NoStorage, EarlierSession, ForeignValues}

NoSnapshot == [valid |-> FALSE, settings |-> Defaults, transcripts |-> 0]

(***************************************************************************)
(* The notification of the page and the timers that clear it.  Time is      *)
(* counted in seconds: setTimeout(f, 2000) is a timer with 2 seconds left.  *)
(* The pending timers of a tab are the sequence of their seconds left, in   *)
(* the order in which they come due (timers due together run in the order   *)
(* of their setTimeout calls); each runs its own callback.  The flags that  *)
(* show the settings panel and the API key dialog are left out: no handler  *)
(* modelled here reads them.                                                *)
(***************************************************************************)
null == [message |-> "", type |-> "null"]

\* translations[lang][key]
translations(lang, key) == key \o "@" \o lang

\* setTimeout(f, delay): the new timer goes behind those due no later
setTimeout(pending, delay) ==
    LET before == SelectSeq(pending, LAMBDA d : d <= delay)
        after == SelectSeq(pending, LAMBDA d : d > delay)
    IN  before \o <<delay>> \o after

\* setNotification({message, type}); setTimeout(() => setNotification(null), delay)
Notify(t, message, type, delay) ==
    /\ Len(timers[t]) < MaxTimers
    /\ notification' = [notification EXCEPT ![t] = [message |-> message, type |-> type]]
    /\ timers' = [timers EXCEPT ![t] = setTimeout(@, delay)]
    /\ shownFor' = [shownFor EXCEPT ![t] = 0]

\* the handler op of tab t ran and called no export function; a call of
\* exportAsCSV(arg) is the download of BlobOf(exportAsCSV(arg))
\* env is what the browser answered (window.confirm, window.open), ret what
\* the export function returned
NoCall(op) == [op |-> op, fn |-> "", arg |-> <<>>, env |-> TRUE, ret |-> TRUE]
Handled(t, op) == did' = [did EXCEPT ![t] = NoCall(op)]

\* the localStorage keys of the first-time notices 0, 1 and 2
NoticeKeys == [k \in 0..2 |->
    CASE k = 0 -> "notice_apikey_dismissed"
      [] k = 1 -> "notice_privacy_dismissed"
      [] k = 2 -> "notice_persistence_dismissed"]

\* the mount effect of FirstTimeNotices: a notice is shown unless its key
\* holds a non-empty value
NoticesToShow(ls) ==
    {k \in 0..2 : NoticeKeys[k] \notin DOMAIN ls \/ ls[NoticeKeys[k]] = ""}

\* the message of the https check of the mount effect
HttpsRequired == "HTTPS required for microphone access. Please use HTTPS connection."

\* mutant of PageMount: the transcripts survive the mount
PageMountKeepingTranscripts(t) ==
    /\ isConnected' = [isConnected EXCEPT ![t] = FALSE]
    /\ attempts' = [attempts EXCEPT ![t] = <<>>]
    /\ notification' = [notification EXCEPT ![t] = null]
    /\ timers' = [timers EXCEPT ![t] = <<>>]
    /\ shownFor' = [shownFor EXCEPT ![t] = 0]
    /\ heard' = [heard EXCEPT ![t] = <<>>]
    /\ showNotices' = [showNotices EXCEPT ![t] = NoticesToShow(localStorage)]
    /\ Handled(t, "mount")
    /\ UNCHANGED <<transcriptsWithTimestamps, lastPartialTranscriptRef, printWindow,
                   secureContext>>

\* the page state of a fresh mount in tab t: the useState and useRef initial
\* values, then the https check
PageMount(t) ==
    /\ transcriptsWithTimestamps' = [transcriptsWithTimestamps EXCEPT ![t] = <<>>]
    /\ lastPartialTranscriptRef' = [lastPartialTranscriptRef EXCEPT ![t] = <<>>]
    /\ isConnected' = [isConnected EXCEPT ![t] = FALSE]
    /\ attempts' = [attempts EXCEPT ![t] = <<>>]
    /\ notification' = [notification EXCEPT ![t] =
           IF secureContext THEN null ELSE [message |-> HttpsRequired, type |-> "error"]]
    /\ timers' = [timers EXCEPT ![t] = <<>>]
    /\ shownFor' = [shownFor EXCEPT ![t] = 0]
    /\ heard' = [heard EXCEPT ![t] = <<>>]
    /\ showNotices' = [showNotices EXCEPT ![t] = NoticesToShow(localStorage)]
    /\ Handled(t, "mount")
    /\ UNCHANGED <<printWindow, secureContext>>

\* an update in tab t: counted, and the tab no longer is as its last reload left it
Updated(t) ==
    /\ updates' = updates + 1
    /\ beforeReload' = [beforeReload EXCEPT ![t] = NoSnapshot]
    /\ UNCHANGED <<mounted, now, hlVars, evVars, csvVars>>
CanUpdate(t) == t \in mounted /\ updates < MaxUpdates

\* the page is opened in tab t: useState defaults, then the mount effects
Open(t) ==
    /\ t \notin mounted
    /\ mounted' = mounted \cup {t}
    /\ settings' = [settings EXCEPT ![t] = LoadSettings(localStorage)]
    /\ PageMount(t)
    /\ UNCHANGED <<localStorage, beforeReload, now, updates, hlVars, csvVars>>

\* tab t is reloaded: the state is dropped and the page mounts again
Reload(t) ==
    /\ t \in mounted
    /\ beforeReload' = [beforeReload EXCEPT ![t] =
           [valid |-> TRUE, settings |-> settings[t],
            transcripts |-> Len(transcriptsWithTimestamps[t])]]
    /\ settings' = [settings EXCEPT ![t] = LoadSettings(localStorage)]
    /\ PageMount(t)
    /\ UNCHANGED <<localStorage, mounted, now, updates, hlVars, csvVars>>

\* the dismiss button of notice k, on show in tab t
dismissNotice(t, k) ==
    /\ t \in mounted
    /\ k \in showNotices[t]
    /\ localStorage' = setItem(localStorage, NoticeKeys[k], "true")
    /\ showNotices' = [showNotices EXCEPT ![t] = @ \ {k}]
    /\ UNCHANGED <<mounted, settings, beforeReload, now, updates, hlVars, csvVars,
                   transcriptsWithTimestamps, lastPartialTranscriptRef, isConnected,
                   attempts, printWindow, secureContext, heard, ntVars>>

dismissNotice0(t) == dismissNotice(t, 0) /\ Handled(t, "dismissNotice0")
dismissNotice1(t) == dismissNotice(t, 1) /\ Handled(t, "dismissNotice1")
dismissNotice2(t) == dismissNotice(t, 2) /\ Handled(t, "dismissNotice2")

handleLanguageChange(t) ==
    \E lang \in Languages :
        /\ CanUpdate(t)
        /\ updateLanguage(t, lang)
        /\ Notify(t, translations(lang, "languageChanged"), "info", 2)
        /\ Handled(t, "handleLanguageChange")
        /\ Updated(t)

handleSaveApiKey(t) ==
    \E tempApiKey \in TempApiKeys :
        /\ CanUpdate(t)
        /\ trim(tempApiKey) # <<>>
        /\ updateApiKey(t, trim(tempApiKey))
        /\ Notify(t, translations(settings[t].language, "apiKeySavedSuccess"), "success", 3)
        /\ Handled(t, "handleSaveApiKey")
        /\ Updated(t)

handleClearApiKey(t) ==
    /\ CanUpdate(t)
    /\ updateApiKey(t, <<>>)
    /\ Notify(t, translations(settings[t].language, "apiKeyRemoved"), "info", 3)
    /\ Handled(t, "handleClearApiKey")
    /\ Updated(t)

handleToggleEchoCancellation(t) ==
    LET newValue == ~settings[t].echoCancellation
    IN  /\ CanUpdate(t)
        /\ updateEchoCancellation(t, newValue)
        /\ Notify(t, translations(settings[t].language,
                      IF newValue THEN "echoCancellationEnabled"
                      ELSE "echoCancellationDisabled"), "info", 2)
        /\ Handled(t, "handleToggleEchoCancellation")
        /\ Updated(t)

handleToggleNoiseSuppression(t) ==
    LET newValue == ~settings[t].noiseSuppression
    IN  /\ CanUpdate(t)
        /\ updateNoiseSuppression(t, newValue)
        /\ Notify(t, translations(settings[t].language,
                      IF newValue THEN "noiseSuppressionEnabled"
                      ELSE "noiseSuppressionDisabled"), "info", 2)
        /\ Handled(t, "handleToggleNoiseSuppression")
        /\ Updated(t)

handleMicrophoneChange(t) ==
    \E deviceId \in DeviceIds :
        /\ CanUpdate(t)
        /\ updateMicrophone(t, deviceId)
        /\ Notify(t, translations(settings[t].language, "microphoneChanged") \o ": "
                     \o (IF deviceId = ""
                         THEN translations(settings[t].language, "defaultMicrophone")
                         ELSE "label of " \o deviceId), "info", 2)
        /\ Handled(t, "handleMicrophoneChange")
        /\ Updated(t)

\* handleAdd of HighlightSettings, which calls handleAddHighlight of the page
handleAdd(t) ==
    \E newWord \in NewWords, selectedColor \in SelectedColors :
        /\ CanUpdate(t)
        /\ Len(settings[t].highlightRules) < MaxRules
        /\ trim(newWord) # <<>>
        /\ addHighlightRule(t, trim(newWord), selectedColor)
        /\ Notify(t, translations(settings[t].language, "highlightAdded"), "success", 2)
        /\ Handled(t, "handleAddHighlight")
        /\ Updated(t)

handleRemoveHighlight(t) ==
    \E k \in 1..Len(settings[t].highlightRules) :
        /\ CanUpdate(t)
        /\ removeHighlightRule(t, settings[t].highlightRules[k].id)
        /\ Notify(t, translations(settings[t].language, "highlightRemoved"), "info", 2)
        /\ Handled(t, "handleRemoveHighlight")
        /\ Updated(t)

handleTogglePartialMatch(t) ==
    LET newValue == ~settings[t].partialMatchHighlight
    IN  /\ CanUpdate(t)
        /\ updatePartialMatchHighlight(t, newValue)
        /\ Notify(t, translations(settings[t].language,
                      IF newValue THEN "partialMatchingEnabled"
                      ELSE "partialMatchingDisabled"), "info", 2)
        /\ Handled(t, "handleTogglePartialMatch")
        /\ Updated(t)

handleToggleNewestFirst(t) ==
    /\ CanUpdate(t)
    /\ updateNewestFirst(t, ~settings[t].newestFirst)
    /\ Notify(t, translations(settings[t].language, "transcriptOrderChanged"), "info", 2)
    /\ Handled(t, "handleToggleNewestFirst")
    /\ Updated(t)

\* time passes
Tick ==
    /\ now < MaxClock
    /\ now' = now + 1
    /\ UNCHANGED <<localStorage, mounted, settings, beforeReload, updates, hlVars,
                   pgVars, csvVars>>

\* the renderers at rest while the settings are exercised
IdleHighlight ==
    /\ text = <<>>
    /\ rules = <<>>
    /\ partialMatch = TRUE
    /\ parts = <<>>
    /\ html = <<>>
    /\ called = {}

\* exportAsCSV at rest
IdleCSV ==
    /\ transcripts = <<>>
    /\ csvContent = <<>>

\* the page not yet mounted in any tab
InitPage ==
    /\ transcriptsWithTimestamps = [t \in Tabs |-> <<>>]
    /\ lastPartialTranscriptRef = [t \in Tabs |-> <<>>]
    /\ isConnected = [t \in Tabs |-> FALSE]
    /\ attempts = [t \in Tabs |-> <<>>]
    /\ notification = [t \in Tabs |-> null]
    /\ timers = [t \in Tabs |-> <<>>]
    /\ printWindow = [t \in Tabs |-> <<>>]
    /\ showNotices = [t \in Tabs |-> {}]
    /\ shownFor = [t \in Tabs |-> 0]
    /\ heard = [t \in Tabs |-> <<>>]
    /\ did = [t \in Tabs |-> NoCall("")]

InitSettings ==
    /\ IdleHighlight
    /\ IdleCSV
    /\ InitPage
    /\ secureContext = TRUE
    /\ localStorage \in InitialStorages
    /\ mounted = {}
    /\ settings = [t \in Tabs |-> Defaults]
    /\ beforeReload = [t \in Tabs |-> NoSnapshot]
    /\ now = 1
    /\ updates = 0

TabNext(t) ==
    \/ Open(t)
    \/ Reload(t)
    \/ dismissNotice0(t)
    \/ dismissNotice1(t)
    \/ dismissNotice2(t)
    \/ handleLanguageChange(t)
    \/ handleSaveApiKey(t)
    \/ handleClearApiKey(t)
    \/ handleToggleEchoCancellation(t)
    \/ handleToggleNoiseSuppression(t)
    \/ handleMicrophoneChange(t)
    \/ handleAdd(t)
    \/ handleRemoveHighlight(t)
    \/ handleTogglePartialMatch(t)
    \/ handleToggleNewestFirst(t)

\* one tab: a session of the page and its reloads
NextSession == TabNext("A") \/ Tick
SpecSession == InitSettings /\ [][NextSession]_vars

\* the page open in several tabs of one browser
NextTabs == ((\E t \in Tabs : TabNext(t)) \/ Tick) /\ updates' <= MaxTabUpdates
SpecTabs == InitSettings /\ [][NextTabs]_vars

(***************************************************************************)
(* exportAsCSV (app/utils/exportUtils.ts): the CSV text, character by       *)
(* character                                                                *)
(***************************************************************************)
\* what the transcription service can send as data.text
TranscriptTexts == {<<" ">>, <<"a">>, <<"b">>}

\* Date.toLocaleTimeString('fi-FI', two-digit hour, minute and second) of the
\* clock reading ms, in the time zone UTC
Pad2(n) == <<ToString(n \div 10), ToString(n % 10)>>
toLocaleTimeString(ms) ==
    LET s == ms \div 1000
    IN  Pad2((s \div 3600) % 24) \o <<".">> \o Pad2((s \div 60) % 60) \o <<".">> \o Pad2(s % 60)

\* mutant of replaceQuotes: the text goes between the quotes as it is
replaceQuotesMissing(chars) == chars

\* item.text.replace(/"/g, '""')
RECURSIVE replaceQuotes(_)
replaceQuotes(chars) ==
    IF chars = <<>> THEN <<>>
    ELSE (IF Head(chars) = "\"" THEN <<"\"", "\"">> ELSE <<Head(chars)>>)
         \o replaceQuotes(Tail(chars))

\* Array.prototype.join
RECURSIVE join(_, _)
join(strings, separator) ==
    IF strings = <<>> THEN <<>>
    ELSE IF Len(strings) = 1 THEN strings[1]
    ELSE strings[1] \o separator \o join(Tail(strings), separator)

\* the headers and the rows of exportAsCSV, each a list of fields
CSVHeaders == << <<"T", "i", "m", "e", "s", "t", "a", "m", "p">>, <<"T", "e", "x", "t">> >>
CSVRow(item) == <<item.timestamp, <<"\"">> \o replaceQuotes(item.text) \o <<"\"">> >>

\* csvContent of exportAsCSV(items)
exportAsCSV(items) ==
    join(<<join(CSVHeaders, <<",">>)>>
         \o [i \in 1..Len(items) |-> join(CSVRow(items[i]), <<",">>)],
         <<"\n">>)

\* the content of the blob that is downloaded: a byte order mark, then csvContent
BOM == "\\ufeff"
BlobOf(content) == <<BOM>> \o content

(***************************************************************************)
(* The transcripts of the page (app/page.tsx): the callbacks of useScribe,  *)
(* start and stop, export and clear.  An entry of the list is its id (the   *)
(* clock reading and a random number), its text and its timestamp.          *)
(***************************************************************************)
\* prev.some(t => t.text === text)
HasText(list, chars) == \E k \in 1..Len(list) : list[k].text = chars

\* what Math.random() can give
Randoms == {"0.25", "0.75"}

\* the entry made for a text: id `${Date.now()}-${Math.random()}`
NewEntry(chars, random) ==
    [id |-> ToString(now) \o "-" \o random, text |-> chars,
     timestamp |-> toLocaleTimeString(now)]

\* mutant of AddUnlessPresent: a new entry goes in front of the list
AddInFront(prev, chars, random) ==
    IF HasText(prev, chars) THEN prev
    ELSE <<NewEntry(chars, random)>> \o prev

\* mutant of AddUnlessPresent: the text is added without the check
AddAlways(prev, chars, random) ==
    Append(prev, NewEntry(chars, random))

\* the updater of setTranscriptsWithTimestamps in onDisconnect and in
\* onCommittedTranscriptWithTimestamps
AddUnlessPresent(prev, chars, random) ==
    IF HasText(prev, chars) THEN prev
    ELSE Append(prev, NewEntry(chars, random))

\* !partialText || !partialText.trim()
Falsy(chars) == chars = <<>> \/ trim(chars) = <<>>

\* mutant of onDisconnectCallback: the partial transcript is not saved
onDisconnectCallbackNoSave(t, random) ==
    UNCHANGED <<transcriptsWithTimestamps, lastPartialTranscriptRef>>

\* the onDisconnect callback
onDisconnectCallback(t, random) ==
    LET partialText == lastPartialTranscriptRef[t]
    IN  IF ~Falsy(partialText)
            THEN /\ Len(AddUnlessPresent(transcriptsWithTimestamps[t], partialText, random))
                        <= MaxTranscripts
                 /\ transcriptsWithTimestamps' = [transcriptsWithTimestamps EXCEPT ![t] =
                        AddUnlessPresent(@, partialText, random)]
                 /\ lastPartialTranscriptRef' = [lastPartialTranscriptRef EXCEPT ![t] = <<>>]
            ELSE UNCHANGED <<transcriptsWithTimestamps, lastPartialTranscriptRef>>

\* the connection of tab t ends, by scribe.disconnect() or from the far side
onDisconnect(t) ==
    /\ t \in mounted
    /\ isConnected[t]
    /\ isConnected' = [isConnected EXCEPT ![t] = FALSE]
    /\ \E random \in Randoms : onDisconnectCallback(t, random)
    /\ heard' = [heard EXCEPT ![t] = <<>>]
    /\ did' = [did EXCEPT ![t] = [NoCall("onDisconnect") EXCEPT !.arg = heard[t]]]
    /\ UNCHANGED <<attempts, printWindow, secureContext, showNotices, ntVars,
                   stVars, hlVars, csvVars>>

onPartialTranscript(t) ==
    \E data \in TranscriptTexts :
        /\ t \in mounted
        /\ isConnected[t]
        /\ lastPartialTranscriptRef' = [lastPartialTranscriptRef EXCEPT ![t] = data]
        /\ heard' = [heard EXCEPT ![t] = data]
        /\ Handled(t, "onPartialTranscript")
        /\ UNCHANGED <<transcriptsWithTimestamps, isConnected, attempts, printWindow, secureContext, showNotices, ntVars, stVars, hlVars, csvVars>>

onCommittedTranscriptWithTimestamps(t) ==
    \E data \in TranscriptTexts, random \in Randoms :
        /\ t \in mounted
        /\ isConnected[t]
        /\ Len(AddUnlessPresent(transcriptsWithTimestamps[t], data, random)) <= MaxTranscripts
        /\ lastPartialTranscriptRef' = [lastPartialTranscriptRef EXCEPT ![t] = <<>>]
        /\ transcriptsWithTimestamps' = [transcriptsWithTimestamps EXCEPT ![t] =
               AddUnlessPresent(@, data, random)]
        /\ heard' = [heard EXCEPT ![t] = <<>>]
        /\ Handled(t, "onCommittedTranscriptWithTimestamps")
        /\ UNCHANGED <<isConnected, attempts, printWindow, secureContext, showNotices,
                       ntVars, stVars, hlVars, csvVars>>

\* what handleStart can catch: an Error with its message, or a value that is
\* not an Error.  A message is written as its pieces in a row, cut so that
\* every string the catch block searches for is a piece of its own.
StartErrors ==
    {[instanceofError |-> TRUE,
      message |-> <<"NotAllowedError", ": ", "Permission denied", " by system">>],
     [instanceofError |-> TRUE, message |-> <<"Failed to fetch">>],
     [instanceofError |-> FALSE, message |-> <<"Failed to fetch">>],
     [instanceofError |-> TRUE, message |-> <<"QUOTA_EXCEEDED">>],
     [instanceofError |-> TRUE, message |-> <<"INVALID_API_KEY">>]}

\* the Error handleStart throws when navigator.mediaDevices is missing
NotSupportedError ==
    [instanceofError |-> TRUE,
     message |-> <<"Your browser ", "does not support",
                   " audio recording. Please use a modern browser like Chrome, Safari, or Firefox.">>]

\* the string a message in pieces stands for
RECURSIVE StringOf(_)
StringOf(message) ==
    IF message = <<>> THEN "" ELSE Head(message) \o StringOf(Tail(message))

\* the message the catch block of handleStart shows for what it caught,
\* without the emoji in front; lang is the language of the render that
\* called handleStart
errorMessageOf(lang, error) ==
    IF ~error.instanceofError THEN translations(lang, "unknownError")
    ELSE IF includes(error.message, <<"does not support">>)
        THEN translations(lang, "browserNotSupported") \o ". "
             \o translations(lang, "useModernBrowser")
    ELSE IF includes(error.message, <<"Permission denied">>)
            \/ includes(error.message, <<"NotAllowedError">>)
        THEN translations(lang, "microphonePermissionDenied")
    ELSE IF includes(error.message, <<"Krediitit">>)
            \/ includes(error.message, <<"QUOTA_EXCEEDED">>)
        THEN translations(lang, "creditsExhausted")
    ELSE IF includes(error.message, <<"INVALID_API_KEY">>)
        THEN translations(lang, "invalidApiKey")
    ELSE StringOf(error.message)

\* handleToggle: scribe.disconnect() when connected, whose effect arrives as
\* onDisconnect; else handleStart, which without navigator.mediaDevices
\* throws and runs its catch block at once, and else runs up to its first
\* await and is pending with the language of this render
handleToggle(t) ==
    \E mediaDevices \in BOOLEAN :
        /\ t \in mounted
        /\ IF isConnected[t]
               THEN UNCHANGED <<attempts, ntVars>>
           ELSE IF ~mediaDevices
               THEN /\ Notify(t, errorMessageOf(settings[t].language, NotSupportedError),
                              "error", 10)
                    /\ UNCHANGED attempts
           ELSE /\ Len(attempts[t]) < MaxStarts
                /\ attempts' = [attempts EXCEPT ![t] = Append(@, settings[t].language)]
                /\ UNCHANGED ntVars
        /\ Handled(t, "handleToggle")
        /\ UNCHANGED <<transcriptsWithTimestamps, lastPartialTranscriptRef, isConnected,
                       printWindow, secureContext, showNotices, heard,
                       stVars, hlVars, csvVars>>

\* the pending starts of a tab without its k-th
Settled(pending, k) == SubSeq(pending, 1, k - 1) \o SubSeq(pending, k + 1, Len(pending))

\* a pending handleStart after scribe.connect resolved
handleStartConnected(t) ==
    \E k \in 1..Len(attempts[t]) :
        /\ t \in mounted
        /\ attempts' = [attempts EXCEPT ![t] = Settled(@, k)]
        /\ isConnected' = [isConnected EXCEPT ![t] = TRUE]
        /\ Notify(t, translations(attempts[t][k], "recordingStarted"), "success", 3)
        /\ Handled(t, "handleStart")
        /\ UNCHANGED <<transcriptsWithTimestamps, lastPartialTranscriptRef, printWindow,
                       secureContext, showNotices, heard, stVars, hlVars, csvVars>>

\* a pending handleStart in its catch block
handleStartFailed(t) ==
    \E k \in 1..Len(attempts[t]), error \in StartErrors :
        /\ t \in mounted
        /\ attempts' = [attempts EXCEPT ![t] = Settled(@, k)]
        /\ Notify(t, errorMessageOf(attempts[t][k], error), "error", 10)
        /\ Handled(t, "handleStart")
        /\ UNCHANGED <<transcriptsWithTimestamps, lastPartialTranscriptRef, isConnected,
                       printWindow, secureContext, showNotices, heard, stVars, hlVars, csvVars>>

\* what useScribe hands to onError: an Error with its message, or a value
\* that is not an Error
ScribeErrors == {[instanceofError |-> TRUE, message |-> "socket closed"],
                 [instanceofError |-> FALSE, message |-> "socket closed"]}

\* the onError callback of useScribe
onError(t) ==
    \E error \in ScribeErrors :
        LET errorMessage == IF error.instanceofError THEN error.message
                            ELSE translations(settings[t].language, "unknownError")
        IN  /\ t \in mounted
            /\ isConnected[t] \/ attempts[t] # <<>>
            /\ Notify(t, translations(settings[t].language, "connectionError") \o ": "
                         \o errorMessage, "error", 5)
            /\ Handled(t, "onError")
            /\ UNCHANGED <<evVars, stVars, hlVars, csvVars>>

\* [...list].reverse()
Reverse(list) == [i \in 1..Len(list) |-> list[Len(list) + 1 - i]]

\* mutant of orderedTranscripts: the list is reversed whatever the setting
orderedTranscriptsReversed(t) == Reverse(transcriptsWithTimestamps[t])

\* orderedTranscripts of handleExportCSV and handleExportPDF
orderedTranscripts(t) ==
    IF settings[t].newestFirst THEN Reverse(transcriptsWithTimestamps[t])
    ELSE transcriptsWithTimestamps[t]

\* mutant of NothingToExport: the success notification is shown
NothingToExportSuccess(t, op) ==
    /\ Notify(t, translations(settings[t].language, "transcriptsExported"), "success", 3)
    /\ Handled(t, op)
    /\ UNCHANGED <<evVars, stVars, hlVars, csvVars>>

\* the export handlers when there is no transcript
NothingToExport(t, op) ==
    /\ Notify(t, translations(settings[t].language, "noTranscriptsToExport"), "info", 2)
    /\ Handled(t, op)
    /\ UNCHANGED <<evVars, stVars, hlVars, csvVars>>

handleExportCSV(t) ==
    /\ t \in mounted
    /\ IF Len(transcriptsWithTimestamps[t]) = 0 THEN NothingToExport(t, "handleExportCSV")
       ELSE /\ did' = [did EXCEPT ![t] =
                   [op |-> "handleExportCSV", fn |-> "exportAsCSV",
                    arg |-> orderedTranscripts(t), env |-> TRUE, ret |-> TRUE]]
            /\ Notify(t, translations(settings[t].language, "transcriptsExported"),
                      "success", 3)
            /\ UNCHANGED <<transcriptsWithTimestamps, lastPartialTranscriptRef, isConnected,
                           attempts, printWindow, secureContext, showNotices, heard,
                           stVars, hlVars, csvVars>>

\* htmlContent of exportAsPDF: the heading, the count, and for every item its
\* timestamp and its highlighted text
htmlContent(items, confirmedTitle, highlightRules, partialMatchHighlight) ==
    [heading |-> confirmedTitle,
     total |-> Len(items),
     items |-> [i \in 1..Len(items) |->
                   [timestamp |-> items[i].timestamp,
                    text |-> applyHighlightsToHTML(items[i].text, highlightRules,
                                                   partialMatchHighlight)]]]

\* mutant of exportAsPDF: a blocked window is reported as opened
exportAsPDFAlwaysTrue(printWindowOpened) == TRUE

\* what exportAsPDF returns, given whether window.open gave a window
exportAsPDF(printWindowOpened) == IF ~printWindowOpened THEN FALSE ELSE TRUE

handleExportPDF(t) ==
    \E printWindowOpened \in BOOLEAN :
        /\ t \in mounted
        /\ IF Len(transcriptsWithTimestamps[t]) = 0
               THEN NothingToExport(t, "handleExportPDF")
           ELSE /\ printWindowOpened => Len(printWindow[t]) < MaxWindows
                /\ printWindow' = [printWindow EXCEPT ![t] =
                       IF printWindowOpened
                           THEN Append(@,
                                  [document |-> htmlContent(orderedTranscripts(t),
                                       translations(settings[t].language, "confirmedTranscripts"),
                                       settings[t].highlightRules,
                                       settings[t].partialMatchHighlight),
                                   printed |-> FALSE])
                           ELSE @]
                /\ did' = [did EXCEPT ![t] =
                       [op |-> "handleExportPDF", fn |-> "exportAsPDF",
                        arg |-> orderedTranscripts(t), env |-> printWindowOpened,
                        ret |-> exportAsPDF(printWindowOpened)]]
                /\ IF ~exportAsPDF(printWindowOpened)
                       THEN Notify(t, "Please allow popups to export PDF", "error", 3)
                       ELSE Notify(t, translations(settings[t].language, "transcriptsExported"),
                                   "success", 3)
                /\ UNCHANGED <<transcriptsWithTimestamps, lastPartialTranscriptRef,
                               isConnected, attempts, secureContext, showNotices, heard,
                               stVars, hlVars, csvVars>>

\* printWindow.onload of one of the windows: focus and print, and
\* setTimeout(() => printWindow.close(), 100); the window stays open
printWindowOnload(t) ==
    \E k \in 1..Len(printWindow[t]) :
        /\ ~printWindow[t][k].printed
        /\ printWindow' = [printWindow EXCEPT ![t][k].printed = TRUE]
        /\ Handled(t, "printWindowOnload")
        /\ UNCHANGED <<transcriptsWithTimestamps, lastPartialTranscriptRef, isConnected,
                       attempts, secureContext, showNotices, heard, ntVars, stVars, hlVars, csvVars>>

\* the 100 ms timer of a window that has printed: printWindow.close(); the
\* closed window is gone
printWindowClose(t) ==
    \E k \in 1..Len(printWindow[t]) :
        /\ printWindow[t][k].printed
        /\ printWindow' = [printWindow EXCEPT ![t] =
               SubSeq(@, 1, k - 1) \o SubSeq(@, k + 1, Len(@))]
        /\ Handled(t, "printWindowClose")
        /\ UNCHANGED <<transcriptsWithTimestamps, lastPartialTranscriptRef, isConnected,
                       attempts, secureContext, showNotices, heard, ntVars, stVars, hlVars, csvVars>>

\* mutant of windowConfirm: the answer is taken as a yes
windowConfirmAlways(answer) == TRUE

\* window.confirm(...), given what the user answers
windowConfirm(answer) == answer

handleClearTranscripts(t) ==
    \E confirmed \in BOOLEAN :
        /\ t \in mounted
        /\ did' = [did EXCEPT ![t] = [NoCall("handleClearTranscripts") EXCEPT !.env = confirmed]]
        /\ IF windowConfirm(confirmed)
               THEN /\ transcriptsWithTimestamps' = [transcriptsWithTimestamps EXCEPT ![t] = <<>>]
                    /\ Notify(t, IF translations(settings[t].language, "language") = "en"
                                     THEN "All transcripts cleared"
                                     ELSE "Kaikki transkriptiot tyhjennetty", "info", 2)
               ELSE UNCHANGED <<transcriptsWithTimestamps, ntVars>>
        /\ UNCHANGED <<lastPartialTranscriptRef, isConnected, attempts, printWindow, secureContext, showNotices, heard, stVars, hlVars, csvVars>>

\* the close button of the notification
onClose(t) ==
    /\ t \in mounted
    /\ notification[t] # null
    /\ notification' = [notification EXCEPT ![t] = null]
    /\ Handled(t, "onClose")
    /\ UNCHANGED <<timers, shownFor, evVars, stVars, hlVars, csvVars>>

\* a timer of tab t is due: () => setNotification(null)
TimerFires(t) ==
    /\ timers[t] # <<>>
    /\ Head(timers[t]) = 0
    /\ timers' = [timers EXCEPT ![t] = Tail(@)]
    /\ notification' = [notification EXCEPT ![t] = null]
    /\ Handled(t, "timer")
    /\ UNCHANGED <<shownFor, evVars, stVars, hlVars, csvVars>>

\* a second passes in tab t while timers are pending and none is due
Elapse(t) ==
    /\ timers[t] # <<>>
    /\ Head(timers[t]) # 0
    /\ timers' = [timers EXCEPT ![t] = [k \in 1..Len(@) |-> @[k] - 1]]
    /\ shownFor' = [shownFor EXCEPT ![t] = IF @ < 10 THEN @ + 1 ELSE @]
    /\ UNCHANGED <<notification, did, evVars, stVars, hlVars, csvVars>>

\* one tab with an empty storage or the storage of an earlier session
InitTranscripts ==
    /\ IdleHighlight
    /\ IdleCSV
    /\ InitPage
    /\ secureContext = TRUE
    /\ localStorage \in {NoStorage, EarlierSession}
    /\ mounted = {}
    /\ settings = [t \in Tabs |-> Defaults]
    /\ beforeReload = [t \in Tabs |-> NoSnapshot]
    /\ now = 1
    /\ updates = 0

\* recording, clearing and exporting in one tab, and its reloads
NextTranscripts ==
    \/ Open("A")
    \/ Reload("A")
    \/ handleToggle("A")
    \/ handleStartConnected("A")
    \/ onPartialTranscript("A")
    \/ onCommittedTranscriptWithTimestamps("A")
    \/ onDisconnect("A")
    \/ handleExportCSV("A")
    \/ handleClearTranscripts("A")
SpecTranscripts == InitTranscripts /\ [][NextTranscripts]_vars

\* recording, clearing and exporting in one tab, in either display order,
\* with the print windows of the PDF exports
NextExport ==
    \/ Open("A")
    \/ handleClearTranscripts("A")
    \/ handleToggle("A")
    \/ handleStartConnected("A")
    \/ onCommittedTranscriptWithTimestamps("A")
    \/ handleToggleNewestFirst("A")
    \/ handleExportCSV("A")
    \/ handleExportPDF("A")
    \/ printWindowOnload("A")
    \/ printWindowClose("A")
SpecExport == InitTranscripts /\ [][NextExport]_vars

\* one tab on an origin that is or is not https
InitNotifications ==
    /\ IdleHighlight
    /\ IdleCSV
    /\ InitPage
    /\ secureContext \in BOOLEAN
    /\ localStorage = NoStorage
    /\ mounted = {}
    /\ settings = [t \in Tabs |-> Defaults]
    /\ beforeReload = [t \in Tabs |-> NoSnapshot]
    /\ now = 1
    /\ updates = 0

\* the notification of one tab, its timers and the passing of time
NextNotifications ==
    \/ Open("A")
    \/ handleToggleEchoCancellation("A")
    \/ handleToggle("A")
    \/ handleStartConnected("A")
    \/ handleStartFailed("A")
    \/ onError("A")
    \/ onDisconnect("A")
    \/ onClose("A")
    \/ TimerFires("A")
    \/ Elapse("A")
SpecNotifications == InitNotifications /\ [][NextNotifications]_vars

\* exportAsCSV called once on a list of transcripts
CSVChars == {"a", "\"", ",", "\n"}
CSVTexts == SeqsUpTo(CSVChars, MaxCsvTextLen)
CSVItems == {[timestamp |-> toLocaleTimeString(ms), text |-> chars] :
                ms \in {1, 59000}, chars \in CSVTexts}
InitCSV ==
    /\ IdleHighlight
    /\ transcripts \in {<<>>} \cup {<<x>> : x \in CSVItems}
                          \cup {<<x, y>> : x \in CSVItems, y \in CSVItems}
    /\ csvContent = <<>>
    /\ InitPage
    /\ secureContext = TRUE
    /\ localStorage = NoStorage
    /\ mounted = {}
    /\ settings = [t \in Tabs |-> Defaults]
    /\ beforeReload = [t \in Tabs |-> NoSnapshot]
    /\ now = 1
    /\ updates = 0

ExportCSV ==
    /\ csvContent = <<>>
    /\ csvContent' = exportAsCSV(transcripts)
    /\ UNCHANGED <<transcripts, hlVars, stVars, pgVars>>

NextCSV == ExportCSV
SpecCSV == InitCSV /\ [][NextCSV]_vars

(***************************************************************************)
(* Reading the two renderings back                                          *)
(***************************************************************************)
\* the colours a rule can carry and the text colours a span can get
AllColors == RuleColors \cup {HIGHLIGHT_COLORS[i].value : i \in 1..Len(HIGHLIGHT_COLORS)}
AllTextColors == {"#000000", "#FFFFFF"}
OpenTags == {OpenTag(bg, fg) : bg \in AllColors, fg \in AllTextColors}
Markup == OpenTags \cup {PartialIndicator, CloseTag}
\* the <<background colour, text colour>> an opening tag was written with
ColoursOfTag ==
    [tag \in OpenTags |->
        CHOOSE c \in AllColors \X AllTextColors : tag = OpenTag(c[1], c[2])]

\* the text of a list of React nodes: their string children, concatenated
RECURSIVE TextOfParts(_)
TextOfParts(ps) ==
    IF ps = <<>> THEN <<>> ELSE Head(ps).children \o TextOfParts(Tail(ps))

\* the HTML string without the markup the renderer wrote
StripMarkup(h) == SelectSeq(h, LAMBDA x : x \notin Markup)

\* the highlight spans of a list of React nodes, each with the offset of its
\* token in the text
RECURSIVE NodeSpans(_, _)
NodeSpans(ps, off) ==
    IF ps = <<>> THEN <<>>
    ELSE LET p == Head(ps)
         IN  (IF p.type = "span"
                  THEN <<[at |-> off, token |-> p.children,
                          backgroundColor |-> p.backgroundColor,
                          color |-> p.color, indicator |-> p.indicator]>>
                  ELSE <<>>)
             \o NodeSpans(Tail(ps), off + Len(p.children))

\* the number of text characters at the start of h
RECURSIVE LeadingChars(_)
LeadingChars(h) ==
    IF h = <<>> \/ Head(h) \in Markup THEN 0 ELSE 1 + LeadingChars(Tail(h))

\* what follows the text characters at the start of h
AfterChars(h) == SubSeq(h, LeadingChars(h) + 1, Len(h))

\* the HTML string is text and highlight spans, a span being an opening tag,
\* text, at most one partial indicator and a closing tag: no span inside
\* another
RECURSIVE WellFormedHTML(_)
WellFormedHTML(h) ==
    IF h = <<>> THEN TRUE
    ELSE IF Head(h) \notin Markup THEN WellFormedHTML(Tail(h))
    ELSE IF Head(h) \notin OpenTags THEN FALSE
    ELSE LET rest == AfterChars(Tail(h))
             body == IF rest # <<>> /\ Head(rest) = PartialIndicator
                         THEN Tail(rest) ELSE rest
         IN  /\ LeadingChars(Tail(h)) > 0
             /\ body # <<>>
             /\ Head(body) = CloseTag
             /\ WellFormedHTML(Tail(body))

\* the highlight spans of a well-formed HTML string, as NodeSpans gives them
RECURSIVE HTMLSpans(_, _)
HTMLSpans(h, off) ==
    IF h = <<>> THEN <<>>
    ELSE IF Head(h) \notin Markup THEN HTMLSpans(Tail(h), off + 1)
    ELSE IF Head(h) \notin OpenTags THEN HTMLSpans(Tail(h), off)
    ELSE LET n == LeadingChars(Tail(h))
             rest == AfterChars(Tail(h))
             colours == ColoursOfTag[Head(h)]
         IN  <<[at |-> off, token |-> SubSeq(h, 2, n + 1),
                backgroundColor |-> colours[1], color |-> colours[2],
                indicator |-> (rest # <<>> /\ Head(rest) = PartialIndicator)]>>
             \o HTMLSpans(rest, off + n)

ReactSpans == NodeSpans(parts, 0)
PrintSpans == HTMLSpans(html, 0)
BothCalled == called = {"react", "html"}

(***************************************************************************)
(* What the claims mean by a token, a match and a highlight, stated on the  *)
(* text itself                                                              *)
(***************************************************************************)
\* the words of t: the maximal runs <<i, j>> of non-whitespace characters
WordRuns(t) ==
    {r \in (1..Len(t)) \X (1..Len(t)) :
        /\ r[1] <= r[2]
        /\ \A k \in r[1]..r[2] : t[k] \notin {" ", "\t", "\n"}
        /\ (r[1] = 1 \/ t[r[1] - 1] \in {" ", "\t", "\n"})
        /\ (r[2] = Len(t) \/ t[r[2] + 1] \in {" ", "\t", "\n"})}
Word(t, r) == SubSeq(t, r[1], r[2])

\* two characters that differ at most in case
SameLetter(c, d) == c = d \/ {c, d} = {"a", "A"} \/ {c, d} = {"b", "B"}
\* x equals y case-insensitively
SameIgnoringCase(x, y) ==
    Len(x) = Len(y) /\ \A i \in 1..Len(x) : SameLetter(x[i], y[i])
\* x contains y case-insensitively
ContainsIgnoringCase(x, y) ==
    \E i \in 0..(Len(x) - Len(y)) : SameIgnoringCase(SubSeq(x, i + 1, i + Len(y)), y)

\* rule k matches the word w: exactly, or as a substring when partial
\* matching is on
RuleMatches(k, w) ==
    \/ SameIgnoringCase(w, rules[k].word)
    \/ partialMatch /\ ContainsIgnoringCase(w, rules[k].word)
Matching(w) == {k \in 1..Len(rules) : RuleMatches(k, w)}
FirstMatching(w) == CHOOSE k \in Matching(w) : \A m \in Matching(w) : k <= m

\* the spans of a rendering that start where the word r starts
SpansAt(spans, r) == {k \in 1..Len(spans) : spans[k].at = r[1] - 1}
Renderings ==
    (IF "react" \in called THEN {ReactSpans} ELSE {})
    \cup (IF "html" \in called THEN {PrintSpans} ELSE {})

(***************************************************************************)
(* Claims                                                                   *)
(***************************************************************************)
\* C1: whitespace fidelity. The token texts of applyHighlights' output,
\* concatenated, and applyHighlightsToHTML's output without the markup it
\* added, are the input text, character for character.
C1_WhitespaceFidelity ==
    /\ "react" \in called => TextOfParts(parts) = text
    /\ "html" \in called => StripMarkup(html) = text

\* C1 witness: both renderers ran on a text with a whitespace run of two
\* characters next to a highlighted word
C1_Witness ==
    /\ BothCalled
    /\ Len(ReactSpans) > 0
    /\ Len(PrintSpans) > 0
    /\ \E i \in 1..(Len(text) - 1) : text[i] = " " /\ text[i + 1] = " "

\* C2: the two renderings highlight the same tokens, with the same colours
\* and the same partial-match flag.
C2_SameHighlights ==
    BothCalled => WellFormedHTML(html) /\ ReactSpans = PrintSpans

\* C2 witness: both ran and a token is highlighted as a partial match
C2_Witness ==
    /\ BothCalled
    /\ \E k \in 1..Len(ReactSpans) : ReactSpans[k].indicator
    /\ Len(PrintSpans) > 0

\* C3: first rule wins, no double highlighting. With rules given, every span
\* wraps a whole word of the text, a word some rule matches is wrapped by
\* exactly one span with the colours of the first matching rule, a word no
\* rule matches is not wrapped, and no span lies inside another.
C3_FirstRuleWins ==
    rules # <<>> =>
        /\ "html" \in called => WellFormedHTML(html)
        /\ \A spans \in Renderings :
            /\ \A k \in 1..Len(spans) : \E r \in WordRuns(text) :
                   spans[k].at = r[1] - 1 /\ spans[k].token = Word(text, r)
            /\ \A r \in WordRuns(text) :
                   IF Matching(Word(text, r)) = {}
                       THEN SpansAt(spans, r) = {}
                       ELSE /\ Cardinality(SpansAt(spans, r)) = 1
                            /\ \A k \in SpansAt(spans, r) :
                                   spans[k].backgroundColor
                                       = rules[FirstMatching(Word(text, r))].color

\* C3 witness: a word that the first rule matches only partially and the
\* second rule, of another colour, matches exactly
C3_Witness ==
    /\ BothCalled
    /\ Len(rules) = 2
    /\ rules[1].color # rules[2].color
    /\ rules[1].word # <<>>
    /\ \E r \in WordRuns(text) :
           /\ ~SameIgnoringCase(Word(text, r), rules[1].word)
           /\ ContainsIgnoringCase(Word(text, r), rules[1].word)
           /\ SameIgnoringCase(Word(text, r), rules[2].word)
           /\ partialMatch

\* C4: matching is case-insensitive and the output keeps the original case.
\* A word equal to a rule word up to case is highlighted, and the text of
\* every span is the word as it stands in the input.
C4_CaseInsensitive ==
    rules # <<>> =>
        \A spans \in Renderings :
            /\ \A r \in WordRuns(text) :
                   (\E k \in 1..Len(rules) : SameIgnoringCase(Word(text, r), rules[k].word))
                       => \E k \in SpansAt(spans, r) : spans[k].token = Word(text, r)
            /\ \A k \in 1..Len(spans) :
                   spans[k].token
                       = SubSeq(text, spans[k].at + 1, spans[k].at + Len(spans[k].token))

\* C4 witness: partial matching is off and a word is highlighted that equals
\* a rule word only up to case
C4_Witness ==
    /\ BothCalled
    /\ ~partialMatch
    /\ \E r \in WordRuns(text) :
           /\ \A k \in 1..Len(rules) : Word(text, r) # rules[k].word
           /\ \E k \in 1..Len(rules) : SameIgnoringCase(Word(text, r), rules[k].word)
           /\ SpansAt(ReactSpans, r) # {}
           /\ SpansAt(PrintSpans, r) # {}

\* C5: with partial matching on, a word containing a rule word is
\* highlighted; it carries the partial-match indicator if and only if the
\* rule that highlighted it (the first that matches) matched partially, that
\* is, the word is not equal to that rule's word up to case.
C5_PartialIndicator ==
    (partialMatch /\ rules # <<>>) =>
        \A spans \in Renderings : \A r \in WordRuns(text) :
            LET w == Word(text, r)
            IN  /\ (\E k \in 1..Len(rules) : ContainsIgnoringCase(w, rules[k].word))
                       => SpansAt(spans, r) # {}
                /\ \A k \in SpansAt(spans, r) :
                       /\ Matching(w) # {}
                       /\ spans[k].indicator
                              <=> ~SameIgnoringCase(w, rules[FirstMatching(w)].word)

\* C5 witness: partial matching is on and a word that contains a non-empty
\* rule word without being equal to it carries the indicator in both
\* renderings
C5_Witness ==
    /\ BothCalled
    /\ partialMatch
    /\ \E r \in WordRuns(text) :
           /\ Matching(Word(text, r)) # {}
           /\ rules[FirstMatching(Word(text, r))].word # <<>>
           /\ \E k \in SpansAt(ReactSpans, r) : ReactSpans[k].indicator
           /\ \E k \in SpansAt(PrintSpans, r) : PrintSpans[k].indicator

\* C6: with partial matching off, a word is highlighted if and only if it
\* equals some rule word up to case, and nothing carries the indicator.
C6_ExactOnly ==
    (~partialMatch /\ rules # <<>>) =>
        /\ "html" \in called => \A i \in 1..Len(html) : html[i] # PartialIndicator
        /\ \A spans \in Renderings :
            /\ \A k \in 1..Len(spans) : ~spans[k].indicator
            /\ \A r \in WordRuns(text) :
                   SpansAt(spans, r) # {}
                       <=> \E k \in 1..Len(rules) :
                               SameIgnoringCase(Word(text, r), rules[k].word)

\* C6 witness: partial matching is off, one word equals a rule word up to
\* case and is highlighted without indicator in both renderings, and another
\* word is left alone
C6_Witness ==
    /\ BothCalled
    /\ ~partialMatch
    /\ \E r \in WordRuns(text) :
           /\ \E k \in SpansAt(ReactSpans, r) : ~ReactSpans[k].indicator
           /\ \E k \in SpansAt(PrintSpans, r) : ~PrintSpans[k].indicator
    /\ \E r \in WordRuns(text) :
           SpansAt(ReactSpans, r) = {} /\ SpansAt(PrintSpans, r) = {}

\* C7 as claimed: highlights match whole words only. Whenever no rule word
\* is empty, every highlighted word equals some rule word up to case, so a
\* rule "a" never highlights "ab".
C7_WholeWordsOnly ==
    (\A m \in 1..Len(rules) : rules[m].word # <<>>) =>
        \A spans \in Renderings : \A k \in 1..Len(spans) :
            \E m \in 1..Len(rules) : SameIgnoringCase(spans[k].token, rules[m].word)

\* C7 as amended: with partial matching off, highlights match whole words
\* only: every highlighted word equals, up to case, the word of a rule of
\* the span's colour.
C7_WholeWordsWhenPartialOff ==
    ~partialMatch =>
        \A spans \in Renderings : \A k \in 1..Len(spans) :
            \E m \in 1..Len(rules) :
                /\ SameIgnoringCase(spans[k].token, rules[m].word)
                /\ rules[m].color = spans[k].backgroundColor

\* C7 witness: partial matching is off and a word that properly contains a
\* rule word is left alone by both renderers
C7_Witness ==
    /\ BothCalled
    /\ ~partialMatch
    /\ Len(rules) > 0
    /\ \E r \in WordRuns(text) :
           /\ \E k \in 1..Len(rules) :
                  /\ rules[k].word # <<>>
                  /\ Len(rules[k].word) < Len(Word(text, r))
                  /\ ContainsIgnoringCase(Word(text, r), rules[k].word)
           /\ SpansAt(ReactSpans, r) = {}
           /\ SpansAt(PrintSpans, r) = {}

\* C8: with an empty rule list applyHighlights returns the one-element list
\* [text] and applyHighlightsToHTML returns text.
C8_NoRulesUnchanged ==
    rules = <<>> =>
        /\ "react" \in called =>
               /\ Len(parts) = 1
               /\ parts[1].type = "text"
               /\ parts[1].children = text
        /\ "html" \in called => html = text

\* C8 witness: no rules, and a text of several tokens that starts with
\* whitespace went through both renderers
C8_Witness ==
    /\ BothCalled
    /\ rules = <<>>
    /\ Len(text) > 1
    /\ text[1] = " "
    /\ WordRuns(text) # {}


(***************************************************************************)
(* Claims about the settings                                                *)
(***************************************************************************)
\* C9: after any sequence of settings updates, a reload of the page restores
\* language, API key, echo cancellation, noise suppression, selected
\* microphone, highlight rules, partial-match toggle and transcript order to
\* exactly the values they had before the reload.
C9_SettingsPersist ==
    \A t \in DOMAIN beforeReload :
        beforeReload[t].valid => settings[t] = beforeReload[t].settings

\* C9 witness: the page was reloaded after updates, with every setting off
\* its default and a rule added in this session whose word is a quote
C9_Witness ==
    /\ "A" \in mounted
    /\ beforeReload["A"].valid
    /\ updates >= 1
    /\ \A f \in DOMAIN Defaults : beforeReload["A"].settings[f] # Defaults[f]
    /\ \E k \in 1..Len(settings["A"].highlightRules) :
           /\ settings["A"].highlightRules[k].word = <<"\"">>
           /\ settings["A"].highlightRules[k].id = ToString(now)

\* C10: when a setting is changed in one open tab, the setting of every
\* other open tab takes the same value.
C10_TabsSynchronized ==
    [][\A t \in mounted, f \in DOMAIN Defaults :
           (updates' # updates /\ settings'[t][f] # settings[t][f])
               => \A u \in mounted : settings'[u][f] = settings'[t][f]]_vars


\* C11: every highlight rule has a unique identifier: no two rules of the
\* list of a tab share an id, also when two rules are added within the same
\* clock millisecond.
C11_UniqueRuleIds ==
    \A t \in DOMAIN settings :
        \A i, j \in 1..Len(settings[t].highlightRules) :
            settings[t].highlightRules[i].id = settings[t].highlightRules[j].id => i = j


(***************************************************************************)
(* Claims about the transcripts of the page                                 *)
(***************************************************************************)
\* a text with nothing but white space in it
IsBlank(chars) == \A i \in 1..Len(chars) : chars[i] \in {" ", "\t", "\n"}

\* the texts of a list of transcripts, in order
TextsOf(list) == [k \in 1..Len(list) |-> list[k].text]

\* C12: when a disconnect event arrives and the partial transcript received
\* last, not committed and not saved since, is not blank, that text is in the
\* confirmed transcript list after the event.
C12_AutoSaveOnStop ==
    \A t \in DOMAIN did :
        (did[t].op = "onDisconnect" /\ ~IsBlank(did[t].arg))
            => \E k \in 1..Len(transcriptsWithTimestamps[t]) :
                   transcriptsWithTimestamps[t][k].text = did[t].arg

\* C12 witness: a disconnect saved the partial transcript "a" as a new entry
\* behind an entry that was committed
C12_Witness ==
    /\ did["A"].op = "onDisconnect"
    /\ did["A"].arg = <<"a">>
    /\ TextsOf(transcriptsWithTimestamps["A"]) = << <<"b">>, <<"a">> >>
    /\ lastPartialTranscriptRef["A"] = <<>>

\* C13: no two entries of the confirmed transcript list have the same text.
C13_NoDuplicateTexts ==
    \A t \in DOMAIN transcriptsWithTimestamps :
        \A i, j \in 1..Len(transcriptsWithTimestamps[t]) :
            transcriptsWithTimestamps[t][i].text = transcriptsWithTimestamps[t][j].text
                => i = j

\* C13 witness: a disconnect found its partial transcript in the list already,
\* as the first of two entries
C13_Witness ==
    /\ did["A"].op = "onDisconnect"
    /\ Len(transcriptsWithTimestamps["A"]) = 2
    /\ did["A"].arg = transcriptsWithTimestamps["A"][1].text
    /\ ~IsBlank(did["A"].arg)


(***************************************************************************)
(* Claims about the exports                                                 *)
(***************************************************************************)
\* reading CSV text by the standard quoting rules: a field in double quotes
\* runs to the next quote that is not doubled and may hold commas and line
\* breaks; outside quotes a comma ends the field and a line break the row
RECURSIVE CSVRead(_, _, _, _, _, _)
CSVRead(s, i, quoted, field, row, rows) ==
    IF i > Len(s) THEN Append(rows, Append(row, field))
    ELSE IF quoted THEN
        IF s[i] = "\"" THEN
            IF i < Len(s) /\ s[i + 1] = "\""
                THEN CSVRead(s, i + 2, TRUE, Append(field, "\""), row, rows)
                ELSE CSVRead(s, i + 1, FALSE, field, row, rows)
        ELSE CSVRead(s, i + 1, TRUE, Append(field, s[i]), row, rows)
    ELSE IF s[i] = "\"" THEN CSVRead(s, i + 1, TRUE, field, row, rows)
    ELSE IF s[i] = "," THEN CSVRead(s, i + 1, FALSE, <<>>, Append(row, field), rows)
    ELSE IF s[i] = "\n" THEN CSVRead(s, i + 1, FALSE, <<>>, <<>>, Append(rows, Append(row, field)))
    ELSE CSVRead(s, i + 1, FALSE, Append(field, s[i]), row, rows)

\* a text with every double quote doubled
RECURSIVE DoubleQuotes(_)
DoubleQuotes(chars) ==
    IF chars = <<>> THEN <<>>
    ELSE IF Head(chars) = "\"" THEN <<"\"", "\"">> \o DoubleQuotes(Tail(chars))
    ELSE <<Head(chars)>> \o DoubleQuotes(Tail(chars))

\* the header row, and behind it one row per transcript: a line break, the
\* timestamp, a comma, and the text in double quotes with its quotes doubled
HeaderRow == <<"T", "i", "m", "e", "s", "t", "a", "m", "p", ",", "T", "e", "x", "t">>
RECURSIVE RowsBehind(_)
RowsBehind(items) ==
    IF items = <<>> THEN <<>>
    ELSE <<"\n">> \o Head(items).timestamp \o <<",", "\"">>
         \o DoubleQuotes(Head(items).text) \o <<"\"">> \o RowsBehind(Tail(items))

\* C14: the CSV content is the header row 'Timestamp,Text' followed by one
\* row per transcript in the given order, each text in double quotes with
\* every inner quote doubled, and reading the rows back by the CSV quoting
\* rules gives the timestamp and the text of every transcript.
C14_CSVLossless ==
    csvContent # <<>> =>
        LET rows == CSVRead(csvContent, 1, FALSE, <<>>, <<>>, <<>>)
        IN  /\ csvContent = HeaderRow \o RowsBehind(transcripts)
            /\ Len(rows) = Len(transcripts) + 1
            /\ rows[1] = << <<"T", "i", "m", "e", "s", "t", "a", "m", "p">>, <<"T", "e", "x", "t">> >>
            /\ \A i \in 1..Len(transcripts) :
                   rows[i + 1] = <<transcripts[i].timestamp, transcripts[i].text>>

\* C14 witness: two transcripts were exported, the first with a quote and a
\* line break in its text, the second with a comma and a quote
C14_Witness ==
    /\ csvContent # <<>>
    /\ Len(transcripts) = 2
    /\ transcripts[1].text = <<"\"", "\n">>
    /\ transcripts[2].text = <<",", "\"">>
    /\ transcripts[1].timestamp # transcripts[2].timestamp


\* the notification of an export that went through, in the language of tab t
ExportedNotification(t) ==
    [message |-> translations(settings[t].language, "transcriptsExported"), type |-> "success"]

\* C15: exportAsPDF returns true if the print window opened and false if it
\* was blocked; when it is blocked no window is written to, and
\* handleExportPDF shows the 'allow popups' error notification and not the
\* 'exported successfully' notification.
C15_PopupBlocked ==
    [][\A t \in mounted :
           did'[t].fn = "exportAsPDF" =>
               /\ did'[t].ret = did'[t].env
               /\ ~did'[t].env =>
                      /\ printWindow' = printWindow
                      /\ notification'[t] =
                             [message |-> "Please allow popups to export PDF", type |-> "error"]
                      /\ notification'[t] # ExportedNotification(t)
               /\ did'[t].env =>
                      /\ Len(printWindow'[t]) = Len(printWindow[t]) + 1
                      /\ printWindow'[t][Len(printWindow'[t])].document.total
                             = Len(did'[t].arg)
                      /\ notification'[t] = ExportedNotification(t)]_vars

\* C15 witness: the print window was blocked while the window of an earlier
\* export was still open, and the error notification is showing
C15_Witness ==
    /\ did["A"].fn = "exportAsPDF"
    /\ ~did["A"].env
    /\ ~did["A"].ret
    /\ printWindow["A"] # <<>>
    /\ notification["A"].type = "error"


\* the handlers that commit, save, clear and export transcripts
TranscriptOps ==
    {"onCommittedTranscriptWithTimestamps", "onDisconnect", "handleClearTranscripts",
     "handleExportCSV", "handleExportPDF"}

\* C16: no commit, disconnect, clear or export operation writes to
\* localStorage, and a reload of the page leaves the confirmed transcript
\* list empty while the settings are what they were.
C16_TranscriptsInMemoryOnly ==
    [][\A t \in mounted :
           /\ did'[t].op \in TranscriptOps => localStorage' = localStorage
           /\ did'[t].op = "mount" =>
                  /\ transcriptsWithTimestamps'[t] = <<>>
                  /\ settings'[t] = settings[t]
                  /\ localStorage' = localStorage]_vars

\* C16 witness: the page was reloaded with two transcripts in the list; the
\* list is empty and the settings are those of the earlier session
C16_Witness ==
    /\ did["A"].op = "mount"
    /\ beforeReload["A"].valid
    /\ beforeReload["A"].transcripts = 2
    /\ transcriptsWithTimestamps["A"] = <<>>
    /\ settings["A"].highlightRules # <<>>
    /\ settings["A"].language = "fi"

\* list holds the entries of prev in their order, and maybe more behind them
Extends(list, prev) == Len(prev) <= Len(list) /\ SubSeq(list, 1, Len(prev)) = prev

\* C17: handleClearTranscripts empties the confirmed list if the user
\* confirms, and leaves the list and the notification unchanged if the user
\* declines; no other handler of the page removes an entry from the list (a
\* reload of the page empties it).
C17_ClearOnlyAfterConfirm ==
    [][\A t \in mounted :
           /\ did'[t].op = "handleClearTranscripts" =>
                  IF did'[t].env
                      THEN transcriptsWithTimestamps'[t] = <<>>
                      ELSE /\ transcriptsWithTimestamps'[t] = transcriptsWithTimestamps[t]
                           /\ notification'[t] = notification[t]
                           /\ timers'[t] = timers[t]
           /\ ~Extends(transcriptsWithTimestamps'[t], transcriptsWithTimestamps[t]) =>
                  \/ did'[t].op = "handleClearTranscripts" /\ did'[t].env
                  \/ did'[t].op = "mount"]_vars

\* C17 witness: the user declined with two transcripts in the list and a
\* notification showing
C17_Witness ==
    /\ did["A"].op = "handleClearTranscripts"
    /\ ~did["A"].env
    /\ Len(transcriptsWithTimestamps["A"]) = 2
    /\ notification["A"] # null

\* C18: the stored list is oldest-first, the export handlers pass it reversed
\* when newestFirst is true and as stored otherwise, and exporting does not
\* change the stored list.
C18_ExportOrder ==
    [][\A t \in mounted :
           /\ did'[t].op = "onCommittedTranscriptWithTimestamps" =>
                  Extends(transcriptsWithTimestamps'[t], transcriptsWithTimestamps[t])
           /\ did'[t].fn # "" =>
                  /\ transcriptsWithTimestamps'[t] = transcriptsWithTimestamps[t]
                  /\ Len(did'[t].arg) = Len(transcriptsWithTimestamps[t])
                  /\ \A k \in 1..Len(did'[t].arg) :
                         did'[t].arg[k] =
                             IF settings[t].newestFirst
                                 THEN transcriptsWithTimestamps[t][Len(did'[t].arg) + 1 - k]
                                 ELSE transcriptsWithTimestamps[t][k]]_vars

\* C18 witness: two transcripts exported as PDF newest first, and the stored
\* list still oldest first
C18_Witness ==
    /\ did["A"].fn = "exportAsPDF"
    /\ settings["A"].newestFirst
    /\ TextsOf(transcriptsWithTimestamps["A"]) = << <<"a">>, <<"b">> >>
    /\ TextsOf(did["A"].arg) = << <<"b">>, <<"a">> >>

\* C19: with an empty confirmed list, handleExportCSV and handleExportPDF call
\* no export function, open no print window, and show the 'no transcripts to
\* export' info notification.
C19_NothingToExport ==
    [][\A t \in mounted :
           (did'[t].op \in {"handleExportCSV", "handleExportPDF"}
            /\ transcriptsWithTimestamps[t] = <<>>) =>
               /\ did'[t].fn = ""
               /\ printWindow' = printWindow
               /\ notification'[t] =
                      [message |-> translations(settings[t].language, "noTranscriptsToExport"),
                       type |-> "info"]]_vars

\* C19 witness: a PDF export with the list empty, after a clear, while the
\* window of an earlier export is still open
C19_Witness ==
    /\ did["A"].op = "handleExportPDF"
    /\ did["A"].fn = ""
    /\ transcriptsWithTimestamps["A"] = <<>>
    /\ printWindow["A"] # <<>>
    /\ notification["A"].type = "info"


(***************************************************************************)
(* Claims about the notification                                            *)
(***************************************************************************)
\* the error notifications a failed start raises in tab t
StartErrorNotifications(t) ==
    {[message |-> errorMessageOf(lang, error), type |-> "error"] :
        lang \in Languages, error \in StartErrors \cup {NotSupportedError}}

\* C20: the error notification raised by a failed start stays until 10
\* seconds have passed since it was shown, unless the user closes it or a
\* newer notification replaces it; no timer of an earlier notification
\* removes it sooner.
C20_ErrorKeptTenSeconds ==
    [][\A t \in mounted :
           (/\ notification[t] \in StartErrorNotifications(t)
            /\ notification'[t] = null
            /\ shownFor[t] < 10) => did'[t].op = "onClose"]_vars


(***************************************************************************)
(* Claims about starting                                                    *)
(***************************************************************************)
\* C21: at most one start attempt is in progress at any time: while a start
\* attempt begun by handleToggle has not finished, a further handleToggle
\* does not begin a second token fetch or a second connect.
C21_SingleStartAttempt ==
    \A t \in DOMAIN attempts : Len(attempts[t]) <= 1


(***************************************************************************)
(* Claims about the rule words                                              *)
(***************************************************************************)
\* C22: after any sequence of additions through the HighlightSettings form
\* and removals, every rule's word is non-empty and has no white space at
\* its start or its end, so no rule matches every token through the empty
\* substring.
C22_RuleWordsUsable ==
    \A t \in DOMAIN settings :
        \A k \in 1..Len(settings[t].highlightRules) :
            LET word == settings[t].highlightRules[k].word
            IN  /\ word # <<>>
                /\ word[1] \notin {" ", "\t", "\n"}
                /\ word[Len(word)] \notin {" ", "\t", "\n"}
                /\ \E token \in {<<"a">>, <<"b">>} :
                       ~isMatch(token, settings[t].highlightRules[k], TRUE)

\* C22 witness: starting from an empty storage, a rule typed with a space in
\* front is left in the list after another rule was removed
C22_Witness ==
    /\ "A" \in mounted
    /\ "language" \notin DOMAIN localStorage
    /\ did["A"].op = "handleRemoveHighlight"
    /\ Len(settings["A"].highlightRules) = 1
    /\ settings["A"].highlightRules[1].word = <<"a">>

\* C23: a commit or disconnect event leaves the confirmed list as it was or
\* adds exactly one entry at its end, and on every step of the page other
\* than a confirmed clear (or a fresh mount of the page) every entry of the
\* list keeps its id, text, timestamp and position.
C23_AppendOnly ==
    [][\A t \in mounted :
           LET prev == transcriptsWithTimestamps[t]
               list == transcriptsWithTimestamps'[t]
           IN  /\ did'[t].op \in {"onCommittedTranscriptWithTimestamps", "onDisconnect"} =>
                      \/ list = prev
                      \/ /\ Len(list) = Len(prev) + 1
                         /\ \A k \in 1..Len(prev) :
                                /\ list[k].id = prev[k].id
                                /\ list[k].text = prev[k].text
                                /\ list[k].timestamp = prev[k].timestamp
               /\ ~(\/ did'[t].op = "handleClearTranscripts" /\ did'[t].env
                    \/ did'[t].op = "mount") =>
                      /\ Len(prev) <= Len(list)
                      /\ \A k \in 1..Len(prev) :
                             /\ list[k].id = prev[k].id
                             /\ list[k].text = prev[k].text
                             /\ list[k].timestamp = prev[k].timestamp]_vars

\* C23 witness: a commit has added a second entry behind the first, under an
\* id of its own
C23_Witness ==
    /\ did["A"].op = "onCommittedTranscriptWithTimestamps"
    /\ isConnected["A"]
    /\ Len(transcriptsWithTimestamps["A"]) = 2
    /\ transcriptsWithTimestamps["A"][1].text = <<"a">>
    /\ transcriptsWithTimestamps["A"][2].text = <<"b">>
    /\ transcriptsWithTimestamps["A"][1].id # transcriptsWithTimestamps["A"][2].id

====
